---------------------------- MODULE Spec2Model ----------------------------
(***************************************************************************)
(* pwm-position-control: conversion between a servo's physical position    *)
(* (encoder ticks, 4096 per revolution) and a joint's logical angle        *)
(* (degrees).                                                              *)
(*                                                                         *)
(* The repository's functions are pure.  The model is a state machine in   *)
(* which a calibration table is constructed once (Init) and the functions  *)
(* are then called on it one at a time: a Call_* action evaluates the      *)
(* function on inputs drawn from bounded sets and records the call and its *)
(* result, Return goes back to the idle state.                             *)
(*                                                                         *)
(* Python floats are modelled as exact rationals <<n, d>> in lowest terms  *)
(* (d > 0): floating-point rounding and the float32 casts of transform.py  *)
(* are not modelled.  int() is truncation toward zero (Trunc).             *)
(***************************************************************************)
EXTENDS Integers, Sequences, FiniteSets, TLC

VARIABLES
    joint,                  \* name of the calibrated joint
    variant,                \* which copy built the converters: "package" (__init__.py) or "functions"
    pwm_to_logical_table,   \* the joint's physical anchors: "0","90","180","270","360" -> logical degrees
    logical_to_pwm_table,   \* the joint's logical anchors: "-180","-90","0","90","180" -> physical degrees
    pc,                     \* "idle" | "returned"
    call,                   \* name of the function called last ("none" when idle)
    args,                   \* its arguments, a sequence of numbers (rationals <<n, d>>)
    result,                 \* the values it returned, a sequence of numbers
    batch_joints,           \* the joints of a batch call, or of the tables a table was built from
    more_args,              \* the logical_values of a batch move, or the targets of an anchor table
    entry_keys,             \* the keys of the joint's control table entry in the call
    raised                  \* the exception the call raised ("none" when it returned)

vars == <<joint, variant, pwm_to_logical_table, logical_to_pwm_table, pc, call, args, result,
          batch_joints, more_args, entry_keys, raised>>

----------------------------------------------------------------------------
(* Bounds of the model *)

\* integer degrees tried beyond each end of a converter's domain
MarginDeg == 12

\* longest array of samples, and longest list of joints, of a batch call
MaxBatch == 3

\* encoder ticks tried beyond each end of one revolution [0, 4095]
MarginTicks == 64

(* Program constants *)

\* encoder counts per revolution
TicksPerRev == 4096

\* degrees per revolution
DegPerRev == 360

\* width of one interpolation segment, in degrees
SegmentDeg == 90

----------------------------------------------------------------------------
(* Exact rational arithmetic standing for Python's float arithmetic *)

Abs(n) == IF n < 0 THEN -n ELSE n

RECURSIVE GCD(_, _)
GCD(a, b) == IF b = 0 THEN a ELSE GCD(b, a % b)

Norm(n, d) ==
    LET g == GCD(Abs(n), d)
    IN  <<n \div g, d \div g>>

RInt(k) == <<k, 1>>

RNeg(a) == <<-a[1], a[2]>>

RAdd(a, b) ==
    LET g == GCD(a[2], b[2])
        l == (a[2] \div g) * b[2]
    IN  Norm(a[1] * (l \div a[2]) + b[1] * (l \div b[2]), l)

RSub(a, b) == RAdd(a, RNeg(b))

RMul(a, b) ==
    LET g1 == GCD(Abs(a[1]), b[2])
        g2 == GCD(Abs(b[1]), a[2])
    IN  Norm((a[1] \div g1) * (b[1] \div g2), (a[2] \div g2) * (b[2] \div g1))

\* a / k for an integer k > 0
RDivInt(a, k) == RMul(a, <<1, k>>)

RLt(a, b) == a[1] * b[2] < b[1] * a[2]

RLe(a, b) == a[1] * b[2] <= b[1] * a[2]

\* Python's int(): truncation toward zero
Trunc(a) == IF a[1] >= 0 THEN a[1] \div a[2] ELSE -((-a[1]) \div a[2])

\* floor of a rational
Floor(a) == a[1] \div a[2]

\* round(): the nearest integer, a tie to the even neighbour
Round(a) ==
    LET f == Floor(a)
        twice == RSub(RMul(a, RInt(2)), RInt(2 * f))
    IN  IF RLt(twice, RInt(1)) THEN f
        ELSE IF RLt(RInt(1), twice) THEN f + 1
        ELSE IF f % 2 = 0 THEN f ELSE f + 1

\* low + ((x - start) / 90) * (high - low), the expression of every segment
Interpolate(limits, x, start) ==
    RAdd(RInt(limits[1]),
         RMul(RDivInt(RSub(x, RInt(start)), SegmentDeg), RInt(limits[2] - limits[1])))

----------------------------------------------------------------------------
(* __init__.py *)

\* mutant: rule (1) missing
select_limits_without_rule_1(a, b) ==
    IF b = 180 /\ a # 90 /\ a # 270 THEN <<a, -180>>
    ELSE IF a = -180 /\ b # -90 /\ b # -270 THEN <<180, b>>
    ELSE IF b = -180 /\ a # -90 /\ a # -270 THEN <<a, 180>>
    ELSE <<a, b>>

select_limits_physical_to_logical(a, b) ==
    IF a = 180 /\ b # 90 /\ b # 270 THEN <<-180, b>>
    ELSE IF b = 180 /\ a # 90 /\ a # 270 THEN <<a, -180>>
    ELSE IF a = -180 /\ b # -90 /\ b # -270 THEN <<180, b>>
    ELSE IF b = -180 /\ a # -90 /\ a # -270 THEN <<a, 180>>
    ELSE <<a, b>>

\* mutant: the last segment excludes x = 360
physical_to_logical_converter_open_end(table, x) ==
    LET zero_to_ninety == select_limits_physical_to_logical(table["0"], table["90"])
        ninety_to_one_eighty == select_limits_physical_to_logical(table["90"], table["180"])
        one_eighty_to_two_seventy == select_limits_physical_to_logical(table["180"], table["270"])
        two_seventy_to_zero == select_limits_physical_to_logical(table["270"], table["360"])
    IN  IF RLe(RInt(0), x) /\ RLt(x, RInt(90)) THEN Interpolate(zero_to_ninety, x, 0)
        ELSE IF RLe(RInt(90), x) /\ RLt(x, RInt(180)) THEN Interpolate(ninety_to_one_eighty, x, 90)
        ELSE IF RLe(RInt(180), x) /\ RLt(x, RInt(270)) THEN Interpolate(one_eighty_to_two_seventy, x, 180)
        ELSE IF RLe(RInt(270), x) /\ RLt(x, RInt(360)) THEN Interpolate(two_seventy_to_zero, x, 270)
        ELSE RInt(0)

\* the closure returned by build_physical_to_logical(table), applied to x
physical_to_logical_converter(table, x) ==
    LET zero_to_ninety == select_limits_physical_to_logical(table["0"], table["90"])
        ninety_to_one_eighty == select_limits_physical_to_logical(table["90"], table["180"])
        one_eighty_to_two_seventy == select_limits_physical_to_logical(table["180"], table["270"])
        two_seventy_to_zero == select_limits_physical_to_logical(table["270"], table["360"])
    IN  IF RLe(RInt(0), x) /\ RLt(x, RInt(90)) THEN Interpolate(zero_to_ninety, x, 0)
        ELSE IF RLe(RInt(90), x) /\ RLt(x, RInt(180)) THEN Interpolate(ninety_to_one_eighty, x, 90)
        ELSE IF RLe(RInt(180), x) /\ RLt(x, RInt(270)) THEN Interpolate(one_eighty_to_two_seventy, x, 180)
        ELSE IF RLe(RInt(270), x) /\ RLe(x, RInt(360)) THEN Interpolate(two_seventy_to_zero, x, 270)
        ELSE RInt(0)

\* mutant: the last segment excludes x = 180
logical_to_physical_function_open_end(table, x) ==
    LET minus_one_eighty_to_minus_ninety == <<table["-180"], table["-90"]>>
        minus_ninety_to_zero == <<table["-90"], table["0"]>>
        zero_to_ninety == <<table["0"], table["90"]>>
        ninety_to_one_eighty == <<table["90"], table["180"]>>
    IN  IF RLe(RInt(-180), x) /\ RLt(x, RInt(-90)) THEN Interpolate(minus_one_eighty_to_minus_ninety, x, -180)
        ELSE IF RLe(RInt(-90), x) /\ RLt(x, RInt(0)) THEN Interpolate(minus_ninety_to_zero, x, -90)
        ELSE IF RLe(RInt(0), x) /\ RLt(x, RInt(90)) THEN Interpolate(zero_to_ninety, x, 0)
        ELSE IF RLe(RInt(90), x) /\ RLt(x, RInt(180)) THEN Interpolate(ninety_to_one_eighty, x, 90)
        ELSE RInt(0)

\* the closure returned by build_logical_to_physical(table), applied to x
logical_to_physical_function(table, x) ==
    LET minus_one_eighty_to_minus_ninety == <<table["-180"], table["-90"]>>
        minus_ninety_to_zero == <<table["-90"], table["0"]>>
        zero_to_ninety == <<table["0"], table["90"]>>
        ninety_to_one_eighty == <<table["90"], table["180"]>>
    IN  IF RLe(RInt(-180), x) /\ RLt(x, RInt(-90)) THEN Interpolate(minus_one_eighty_to_minus_ninety, x, -180)
        ELSE IF RLe(RInt(-90), x) /\ RLt(x, RInt(0)) THEN Interpolate(minus_ninety_to_zero, x, -90)
        ELSE IF RLe(RInt(0), x) /\ RLt(x, RInt(90)) THEN Interpolate(zero_to_ninety, x, 0)
        ELSE IF RLe(RInt(90), x) /\ RLe(x, RInt(180)) THEN Interpolate(ninety_to_one_eighty, x, 90)
        ELSE RInt(0)

----------------------------------------------------------------------------
(* functions.py *)

\* mutant: rule (2) tested before rule (1)
select_limits_rules_swapped(a, b) ==
    IF b = 180 /\ a # 90 /\ a # 270 THEN <<a, -180>>
    ELSE IF a = 180 /\ b # 90 /\ b # 270 THEN <<-180, b>>
    ELSE IF a = -180 /\ b # -90 /\ b # -270 THEN <<180, b>>
    ELSE IF b = -180 /\ a # -90 /\ a # -270 THEN <<a, 180>>
    ELSE <<a, b>>

\* mutant: rule (1) without its exclusion of b = 90 and b = 270
select_limits_no_exclusion(a, b) ==
    IF a = 180 THEN <<-180, b>>
    ELSE IF b = 180 /\ a # 90 /\ a # 270 THEN <<a, -180>>
    ELSE IF a = -180 /\ b # -90 /\ b # -270 THEN <<180, b>>
    ELSE IF b = -180 /\ a # -90 /\ a # -270 THEN <<a, 180>>
    ELSE <<a, b>>

select_limits_pwm_to_logical(a, b) ==
    IF a = 180 /\ b # 90 /\ b # 270 THEN <<-180, b>>
    ELSE IF b = 180 /\ a # 90 /\ a # 270 THEN <<a, -180>>
    ELSE IF a = -180 /\ b # -90 /\ b # -270 THEN <<180, b>>
    ELSE IF b = -180 /\ a # -90 /\ a # -270 THEN <<a, 180>>
    ELSE <<a, b>>

\* _f of construct_pwm_to_logical_control_table.create_function_for_joint, applied to x
pwm_to_logical_f(values, x) ==
    LET zero_to_ninety == select_limits_pwm_to_logical(values["0"], values["90"])
        ninety_to_one_eighty == select_limits_pwm_to_logical(values["90"], values["180"])
        one_eighty_to_two_seventy == select_limits_pwm_to_logical(values["180"], values["270"])
        two_seventy_to_zero == select_limits_pwm_to_logical(values["270"], values["360"])
    IN  IF RLe(RInt(0), x) /\ RLt(x, RInt(90)) THEN Interpolate(zero_to_ninety, x, 0)
        ELSE IF RLe(RInt(90), x) /\ RLt(x, RInt(180)) THEN Interpolate(ninety_to_one_eighty, x, 90)
        ELSE IF RLe(RInt(180), x) /\ RLt(x, RInt(270)) THEN Interpolate(one_eighty_to_two_seventy, x, 180)
        ELSE IF RLe(RInt(270), x) /\ RLe(x, RInt(360)) THEN Interpolate(two_seventy_to_zero, x, 270)
        ELSE RInt(0)

\* mutant: the second segment interpolates from x instead of x + 90
logical_to_physical_converter_shifted(values, x) ==
    LET minus_one_eighty_to_minus_ninety == <<values["-180"], values["-90"]>>
        minus_ninety_to_zero == <<values["-90"], values["0"]>>
        zero_to_ninety == <<values["0"], values["90"]>>
        ninety_to_one_eighty == <<values["90"], values["180"]>>
    IN  IF RLt(x, RInt(-90)) THEN Interpolate(minus_one_eighty_to_minus_ninety, x, -180)
        ELSE IF RLe(RInt(-90), x) /\ RLt(x, RInt(0)) THEN Interpolate(minus_ninety_to_zero, x, 0)
        ELSE IF RLe(RInt(0), x) /\ RLt(x, RInt(90)) THEN Interpolate(zero_to_ninety, x, 0)
        ELSE IF RLe(RInt(90), x) THEN Interpolate(ninety_to_one_eighty, x, 90)
        ELSE RInt(0)

\* logical_to_physical_converter of construct_logical_to_pwm_control_table.create_function_for_joint:
\* the first and the last segment have no outer bound, the final else is dead
logical_to_physical_converter(values, x) ==
    LET minus_one_eighty_to_minus_ninety == <<values["-180"], values["-90"]>>
        minus_ninety_to_zero == <<values["-90"], values["0"]>>
        zero_to_ninety == <<values["0"], values["90"]>>
        ninety_to_one_eighty == <<values["90"], values["180"]>>
    IN  IF RLt(x, RInt(-90)) THEN Interpolate(minus_one_eighty_to_minus_ninety, x, -180)
        ELSE IF RLe(RInt(-90), x) /\ RLt(x, RInt(0)) THEN Interpolate(minus_ninety_to_zero, x, -90)
        ELSE IF RLe(RInt(0), x) /\ RLt(x, RInt(90)) THEN Interpolate(zero_to_ninety, x, 0)
        ELSE IF RLe(RInt(90), x) THEN Interpolate(ninety_to_one_eighty, x, 90)
        ELSE RInt(0)

----------------------------------------------------------------------------
(* The control table entry of the joint, as transform.py reads it *)

\* table[joint]["physical_to_logical"](x)
physical_to_logical(x) ==
    IF variant = "package"
    THEN physical_to_logical_converter(pwm_to_logical_table, x)
    ELSE pwm_to_logical_f(pwm_to_logical_table, x)

\* table[joint]["logical_to_physical"](x)
logical_to_physical(x) ==
    IF variant = "package"
    THEN logical_to_physical_function(logical_to_pwm_table, x)
    ELSE logical_to_physical_converter(logical_to_pwm_table, x)

----------------------------------------------------------------------------
(* transform.py, one sample of the batch *)

\* physical_values[i] * 360 / 4096
TicksToDegrees(ticks) == RDivInt(RInt(ticks * DegPerRev), TicksPerRev)

physical_to_ranged_logical_numpy(ticks) == physical_to_logical(TicksToDegrees(ticks))

\* int(converter(logical) * 4096 / 360)
logical_to_physical_numpy(logical) ==
    Trunc(RDivInt(RMul(logical_to_physical(logical), RInt(TicksPerRev)), DegPerRev))

physical_to_un_ranged_logical_offset_without_base(ticks) ==
    LET offset == TicksToDegrees(ticks)
        logical == physical_to_ranged_logical_numpy(ticks)
    IN  RSub(logical, offset)

physical_to_un_ranged_logical_numpy(ticks) ==
    LET base == logical_to_physical_numpy(physical_to_ranged_logical_numpy(ticks))
        offset == TicksToDegrees(ticks - base)
        logical == physical_to_ranged_logical_numpy(ticks)
    IN  RSub(logical, offset)

\* mutant: the base is taken from the ranged logical position
logical_to_physical_with_offset_base_from_ranged(ticks, logical) ==
    LET physical_ranged_goal == logical_to_physical_numpy(logical)
        base == logical_to_physical_numpy(physical_to_ranged_logical_numpy(ticks))
    IN  ticks - base + physical_ranged_goal

logical_to_physical_with_offset_goal_only(ticks, logical) ==
    logical_to_physical_numpy(logical)

logical_to_physical_with_offset_numpy(ticks, logical) ==
    LET physical_ranged_goal == logical_to_physical_numpy(logical)
        base == logical_to_physical_numpy(physical_to_un_ranged_logical_numpy(ticks))
    IN  ticks - base + physical_ranged_goal

----------------------------------------------------------------------------
(* transform.py, the batch entry points (numpy) *)

\* a missing sample (None): a pair that is no number
None == <<0, 0>>

\* the outcome of a call: the exception it raised, or the array it returned
Raise(exception) == [raised |-> exception, values |-> <<>>]
Array(values) == [raised |-> "none", values |-> values]

\* np.any(values == None)
contains_None(values) == \E i \in DOMAIN values : values[i] = None

\* table[joints[i]][key] succeeds for every sample of the batch
Lookup(joints, keys, key) == Len(joints) = 0 \/ key \in keys

physical_to_ranged_logical_without_length_check(physical_values, joints, keys) ==
    IF contains_None(physical_values) THEN Raise("ValueError")
    ELSE IF ~Lookup(joints, keys, "physical_to_logical") THEN Raise("KeyError")
    ELSE IF Len(joints) > Len(physical_values) THEN Raise("IndexError")
    ELSE Array([i \in 1 .. Len(joints) |->
                    physical_to_ranged_logical_numpy(physical_values[i][1])])

physical_to_ranged_logical_numpy_batch(physical_values, joints, keys) ==
    IF contains_None(physical_values) THEN Raise("ValueError")
    ELSE IF Len(joints) # Len(physical_values) THEN Raise("ValueError")
    ELSE IF ~Lookup(joints, keys, "physical_to_logical") THEN Raise("KeyError")
    ELSE Array([i \in 1 .. Len(joints) |->
                    physical_to_ranged_logical_numpy(physical_values[i][1])])

logical_to_physical_numpy_batch(logical_values, joints, keys) ==
    IF contains_None(logical_values) THEN Raise("ValueError")
    ELSE IF Len(joints) # Len(logical_values) THEN Raise("ValueError")
    ELSE IF ~Lookup(joints, keys, "logical_to_physical") THEN Raise("KeyError")
    ELSE Array([i \in 1 .. Len(joints) |->
                    RInt(logical_to_physical_numpy(logical_values[i]))])

physical_to_un_ranged_logical_numpy_batch(physical_values, joints, keys) ==
    IF contains_None(physical_values) THEN Raise("ValueError")
    ELSE IF Len(joints) # Len(physical_values) THEN Raise("ValueError")
    ELSE
        LET ranged == physical_to_ranged_logical_numpy_batch(physical_values, joints, keys)
            base == logical_to_physical_numpy_batch(ranged.values, joints, keys)
        IN  IF ranged.raised # "none" THEN ranged
            ELSE IF base.raised # "none" THEN base
            ELSE Array([i \in 1 .. Len(joints) |->
                    RSub(ranged.values[i],
                         TicksToDegrees(physical_values[i][1] - base.values[i][1]))])

logical_to_physical_with_offset_numpy_batch(physical_values, logical_values, joints, keys) ==
    IF contains_None(physical_values) THEN Raise("ValueError")
    ELSE IF Len(joints) # Len(physical_values) THEN Raise("ValueError")
    ELSE IF contains_None(logical_values) THEN Raise("ValueError")
    ELSE IF Len(joints) # Len(logical_values) THEN Raise("ValueError")
    ELSE
        LET physical_ranged_goal == logical_to_physical_numpy_batch(logical_values, joints, keys)
            un_ranged == physical_to_un_ranged_logical_numpy_batch(physical_values, joints, keys)
            base == logical_to_physical_numpy_batch(un_ranged.values, joints, keys)
        IN  IF physical_ranged_goal.raised # "none" THEN physical_ranged_goal
            ELSE IF un_ranged.raised # "none" THEN un_ranged
            ELSE IF base.raised # "none" THEN base
            ELSE Array([i \in 1 .. Len(joints) |->
                    RInt(physical_values[i][1] - base.values[i][1]
                            + physical_ranged_goal.values[i][1])])

----------------------------------------------------------------------------
(* functions.py and load.py, the control table of several joints *)

\* A dict of per-joint anchors is the sequence of its items
\* [joint |-> name, values |-> anchors]; a converter closure is the anchors
\* it captured.
construct_pwm_to_logical_control_table_shared_values(table) ==
    [j \in {table[i].joint : i \in DOMAIN table} |-> table[Len(table)].values]

construct_pwm_to_logical_control_table(table) ==
    [j \in {table[i].joint : i \in DOMAIN table} |->
        table[CHOOSE i \in DOMAIN table : table[i].joint = j].values]

construct_logical_to_pwm_control_table(table) ==
    [j \in {table[i].joint : i \in DOMAIN table} |->
        table[CHOOSE i \in DOMAIN table : table[i].joint = j].values]

construct_control_table(pwm_table, logical_table) ==
    LET pwm_to_logical == construct_pwm_to_logical_control_table(pwm_table)
        logical_to_pwm == construct_logical_to_pwm_control_table(logical_table)
    IN  [j \in DOMAIN pwm_to_logical |->
            [k \in {"pwm_to_logical", "logical_to_pwm"} |->
                IF k = "pwm_to_logical" THEN pwm_to_logical[j] ELSE logical_to_pwm[j]]]

\* tables: the sequence of the joints' calibrations
load_control_table_from_json_conversion_tables(tables) ==
    construct_control_table(
        [i \in DOMAIN tables |-> [joint |-> tables[i].name, values |-> tables[i].pwm_to_logical]],
        [i \in DOMAIN tables |-> [joint |-> tables[i].name, values |-> tables[i].logical_to_pwm]])

----------------------------------------------------------------------------
(* tables.py, the logical anchors of one joint from two measured positions *)

\* A dict {str: int} whose keys are str(k) of integers k is the function
\* from those k to the values.

\* int(round(position / 1024) * 1024 * 360 / 4096)
SnappedDegrees(position) ==
    Trunc(RDivInt(RInt(Round(Norm(position, 1024)) * 1024 * DegPerRev), TicksPerRev))

\* the table of the joint whose measured positions are positions[1] and
\* positions[2] and whose targets are targets[1] and targets[2], after the
\* two target entries and the loop over the indexes
logical_to_pwm_conversion_table(positions, targets, indexes) ==
    LET first == SnappedDegrees(positions[1])
        second == SnappedDegrees(positions[2])
        target_first == targets[1]
        target_second == targets[2]
        filled(index) ==
            IF target_first < target_second
            THEN first + ((index - target_first) \div SegmentDeg) * (second - first)
            ELSE second + ((index - target_second) \div SegmentDeg) * (first - second)
    IN  [k \in {target_first, target_second} \cup indexes |->
            IF k = target_second THEN second
            ELSE IF k = target_first THEN first
            ELSE filled(k)]

\* index = j * 90 for j in range(5)
construct_logical_to_pwm_conversion_table_numpy(positions, targets) ==
    logical_to_pwm_conversion_table(positions, targets, {j * SegmentDeg : j \in 0 .. 4})

\* index = j * 90 - 180 for j in range(5)
construct_logical_to_pwm_conversion_table_arrow(positions, targets) ==
    logical_to_pwm_conversion_table(positions, targets,
                                    {j * SegmentDeg - 180 : j \in 0 .. 4})

----------------------------------------------------------------------------
(* Calibration data *)

PhysicalKeys == {"0", "90", "180", "270", "360"}
LogicalKeys == {"-180", "-90", "0", "90", "180"}

PhysicalAnchors(v0, v90, v180, v270, v360) ==
    [k \in PhysicalKeys |->
        CASE k = "0" -> v0 [] k = "90" -> v90 [] k = "180" -> v180
          [] k = "270" -> v270 [] OTHER -> v360]

LogicalAnchors(m180, m90, v0, v90, v180) ==
    [k \in LogicalKeys |->
        CASE k = "-180" -> m180 [] k = "-90" -> m90 [] k = "0" -> v0
          [] k = "90" -> v90 [] OTHER -> v180]

\* the example table of the docstrings of functions.py
IdentityJoint ==
    [name |-> "identity",
     pwm_to_logical |-> PhysicalAnchors(0, 90, 180, 270, 360),
     logical_to_pwm |-> LogicalAnchors(-180, -90, 0, 90, 180)]

\* a joint whose logical angle crosses the +/-180 seam at physical 180
SeamJoint ==
    [name |-> "seam",
     pwm_to_logical |-> PhysicalAnchors(0, 90, 180, -90, 0),
     logical_to_pwm |-> LogicalAnchors(180, 270, 0, 90, 180)]

\* a joint whose logical zero sits at physical 180
OffsetJoint ==
    [name |-> "offset",
     pwm_to_logical |-> PhysicalAnchors(-180, -90, 0, 90, 180),
     logical_to_pwm |-> LogicalAnchors(0, 90, 180, 270, 360)]

\* inconsistent calibration data: every quadrant is rewritten by select_limits
IrregularJoint ==
    [name |-> "irregular",
     pwm_to_logical |-> PhysicalAnchors(0, 180, -180, 0, -180),
     logical_to_pwm |-> LogicalAnchors(0, 45, 180, 200, 360)]

Calibrations == {IdentityJoint, SeamJoint, OffsetJoint, IrregularJoint}

Variants == {"package", "functions"}

\* anchor values select_limits is tried on
AnchorValues == {-270, -180, -90, 0, 45, 90, 180, 270, 360}

PhysicalDegrees == (0 - MarginDeg) .. (DegPerRev + MarginDeg)
LogicalDegrees == (-180 - MarginDeg) .. (180 + MarginDeg)
Ticks == (0 - MarginTicks) .. (TicksPerRev + MarginTicks)

\* arrays of at most MaxBatch samples
Arrays(samples) == UNION {[1 .. n -> samples] : n \in 0 .. MaxBatch}

\* arrays of tick readings and of logical degrees, a sample possibly missing
PhysicalArrays == Arrays({None, RInt(1000)})
LogicalArrays == Arrays({None, RInt(90)})

\* measured positions (ticks) and target logical angles of an anchor table
MeasuredPositions == {0, 1000, 1536, 2048, 3072}
TargetAngles == {-180, -90, 0, 90, 180}

\* degrees at which the converters of a control table of several joints are tried
PhysicalSamples == {x \in PhysicalDegrees : x % 30 = 0}
LogicalSamples == {x \in LogicalDegrees : x % 30 = 0}

----------------------------------------------------------------------------
(* The state machine *)

Init ==
    /\ \E c \in Calibrations :
          /\ joint = c.name
          /\ pwm_to_logical_table = c.pwm_to_logical
          /\ logical_to_pwm_table = c.logical_to_pwm
    /\ variant \in Variants
    /\ pc = "idle"
    /\ call = "none"
    /\ args = <<>>
    /\ result = <<>>
    /\ batch_joints = <<>>
    /\ more_args = <<>>
    /\ entry_keys = {}
    /\ raised = "none"

Returned(name, arguments, values) ==
    /\ pc' = "returned"
    /\ call' = name
    /\ args' = arguments
    /\ result' = values
    /\ UNCHANGED <<joint, variant, pwm_to_logical_table, logical_to_pwm_table,
                   batch_joints, more_args, entry_keys, raised>>

\* a pair of integers as a sequence of numbers
Pair(limits) == <<RInt(limits[1]), RInt(limits[2])>>

Call_select_limits_physical_to_logical ==
    /\ pc = "idle"
    /\ \E a \in AnchorValues, b \in AnchorValues :
        Returned("select_limits_physical_to_logical", Pair(<<a, b>>),
                 Pair(select_limits_physical_to_logical(a, b)))

Call_select_limits_pwm_to_logical ==
    /\ pc = "idle"
    /\ \E a \in AnchorValues, b \in AnchorValues :
        Returned("select_limits_pwm_to_logical", Pair(<<a, b>>),
                 Pair(select_limits_pwm_to_logical(a, b)))

Call_physical_to_logical ==
    /\ pc = "idle"
    /\ \E x \in PhysicalDegrees :
        Returned("physical_to_logical", <<RInt(x)>>, <<physical_to_logical(RInt(x))>>)

Call_logical_to_physical ==
    /\ pc = "idle"
    /\ \E x \in LogicalDegrees :
        Returned("logical_to_physical", <<RInt(x)>>, <<logical_to_physical(RInt(x))>>)

Call_physical_to_ranged_logical ==
    /\ pc = "idle"
    /\ \E t \in Ticks :
        Returned("physical_to_ranged_logical", <<RInt(t)>>,
                 <<physical_to_ranged_logical_numpy(t)>>)

Call_logical_to_physical_ticks ==
    /\ pc = "idle"
    /\ \E x \in LogicalDegrees :
        Returned("logical_to_physical_ticks", <<RInt(x)>>,
                 <<RInt(logical_to_physical_numpy(RInt(x)))>>)

Call_physical_to_un_ranged_logical ==
    /\ pc = "idle"
    /\ \E t \in Ticks :
        Returned("physical_to_un_ranged_logical", <<RInt(t)>>,
                 <<physical_to_un_ranged_logical_numpy(t)>>)

\* the target is the joint's own un-ranged logical position, or a quadrant boundary
Call_logical_to_physical_with_offset ==
    /\ pc = "idle"
    /\ \E t \in Ticks :
        \E l \in {physical_to_un_ranged_logical_numpy(t), RInt(0), RInt(90)} :
            Returned("logical_to_physical_with_offset", <<RInt(t), l>>,
                     <<RInt(logical_to_physical_with_offset_numpy(t, l))>>)

\* the calibration of the joint, as load.py reads it
OwnCalibration ==
    [name |-> joint, pwm_to_logical |-> pwm_to_logical_table,
     logical_to_pwm |-> logical_to_pwm_table]

\* the joint's converters stored under the keys transform.py looks up
AssembledControlTable ==
    [j \in {joint} |->
        [k \in {"physical_to_logical", "logical_to_physical"} |->
            IF k = "physical_to_logical" THEN pwm_to_logical_table ELSE logical_to_pwm_table]]

\* the control tables a batch call is given
ControlTables ==
    {AssembledControlTable, load_control_table_from_json_conversion_tables(<<OwnCalibration>>)}

\* lists of at most MaxBatch joint names
JointLists == {[i \in 1 .. n |-> joint] : n \in 0 .. MaxBatch}

BatchReturned(name, values, logical_values, joints, keys, outcome) ==
    /\ pc' = "returned"
    /\ call' = name
    /\ args' = values
    /\ more_args' = logical_values
    /\ batch_joints' = joints
    /\ entry_keys' = keys
    /\ raised' = outcome.raised
    /\ result' = outcome.values
    /\ UNCHANGED <<joint, variant, pwm_to_logical_table, logical_to_pwm_table>>

Call_physical_to_ranged_logical_numpy ==
    /\ pc = "idle"
    /\ \E physical_values \in PhysicalArrays, joints \in JointLists, table \in ControlTables :
        BatchReturned("physical_to_ranged_logical_numpy", physical_values, <<>>, joints,
                      DOMAIN table[joint],
                      physical_to_ranged_logical_numpy_batch(physical_values, joints,
                                                             DOMAIN table[joint]))

Call_logical_to_physical_numpy ==
    /\ pc = "idle"
    /\ \E logical_values \in LogicalArrays, joints \in JointLists, table \in ControlTables :
        BatchReturned("logical_to_physical_numpy", logical_values, <<>>, joints,
                      DOMAIN table[joint],
                      logical_to_physical_numpy_batch(logical_values, joints,
                                                      DOMAIN table[joint]))

Call_physical_to_un_ranged_logical_numpy ==
    /\ pc = "idle"
    /\ \E physical_values \in PhysicalArrays, joints \in JointLists, table \in ControlTables :
        BatchReturned("physical_to_un_ranged_logical_numpy", physical_values, <<>>, joints,
                      DOMAIN table[joint],
                      physical_to_un_ranged_logical_numpy_batch(physical_values, joints,
                                                                DOMAIN table[joint]))

Call_logical_to_physical_with_offset_numpy ==
    /\ pc = "idle"
    /\ \E physical_values \in PhysicalArrays, logical_values \in LogicalArrays,
          joints \in JointLists, table \in ControlTables :
        BatchReturned("logical_to_physical_with_offset_numpy", physical_values,
                      logical_values, joints, DOMAIN table[joint],
                      logical_to_physical_with_offset_numpy_batch(
                          physical_values, logical_values, joints, DOMAIN table[joint]))

\* the calibrations of one or two joints, the joint's own among them, in
\* either order
JointTables ==
    {<<OwnCalibration>>}
        \cup {<<OwnCalibration, c>> : c \in {d \in Calibrations : d.name # joint}}
        \cup {<<c, OwnCalibration>> : c \in {d \in Calibrations : d.name # joint}}

JointNames(tables) == [i \in DOMAIN tables |-> tables[i].name]

\* the joint's converter of a control table of several joints, applied
Call_control_table_pwm_to_logical ==
    /\ pc = "idle"
    /\ \E tables \in JointTables, x \in PhysicalSamples :
        LET control_table == load_control_table_from_json_conversion_tables(tables)
        IN  BatchReturned("control_table.pwm_to_logical", <<RInt(x)>>, <<>>,
                          JointNames(tables), DOMAIN control_table[joint],
                          Array(<<pwm_to_logical_f(control_table[joint]["pwm_to_logical"],
                                                   RInt(x))>>))

Call_control_table_logical_to_pwm ==
    /\ pc = "idle"
    /\ \E tables \in JointTables, x \in LogicalSamples :
        LET control_table == load_control_table_from_json_conversion_tables(tables)
        IN  BatchReturned("control_table.logical_to_pwm", <<RInt(x)>>, <<>>,
                          JointNames(tables), DOMAIN control_table[joint],
                          Array(<<logical_to_physical_converter(
                                      control_table[joint]["logical_to_pwm"], RInt(x))>>))

\* the keys an anchor table can have, in increasing order
AnchorKeyOrder == <<-180, -90, 0, 90, 180, 270, 360>>

\* the items <<key, value>> of an anchor table, in the order of the keys
Items(table) ==
    LET IsKey(k) == k \in DOMAIN table
        keys == SelectSeq(AnchorKeyOrder, IsKey)
    IN  [i \in 1 .. Len(keys) |-> <<keys[i], table[keys[i]]>>]

Call_construct_logical_to_pwm_conversion_table_numpy ==
    /\ pc = "idle"
    /\ \E p1 \in MeasuredPositions, p2 \in MeasuredPositions,
          t1 \in TargetAngles, t2 \in TargetAngles :
        BatchReturned("construct_logical_to_pwm_conversion_table_numpy",
                      Pair(<<p1, p2>>), Pair(<<t1, t2>>), <<joint>>, {},
                      Array(Items(construct_logical_to_pwm_conversion_table_numpy(
                                      <<p1, p2>>, <<t1, t2>>))))

Call_construct_logical_to_pwm_conversion_table_arrow ==
    /\ pc = "idle"
    /\ \E p1 \in MeasuredPositions, p2 \in MeasuredPositions,
          t1 \in TargetAngles, t2 \in TargetAngles :
        BatchReturned("construct_logical_to_pwm_conversion_table_arrow",
                      Pair(<<p1, p2>>), Pair(<<t1, t2>>), <<joint>>, {},
                      Array(Items(construct_logical_to_pwm_conversion_table_arrow(
                                      <<p1, p2>>, <<t1, t2>>))))

Return ==
    /\ pc = "returned"
    /\ pc' = "idle"
    /\ call' = "none"
    /\ args' = <<>>
    /\ result' = <<>>
    /\ batch_joints' = <<>>
    /\ more_args' = <<>>
    /\ entry_keys' = {}
    /\ raised' = "none"
    /\ UNCHANGED <<joint, variant, pwm_to_logical_table, logical_to_pwm_table>>

Next ==
    \/ Call_select_limits_physical_to_logical
    \/ Call_select_limits_pwm_to_logical
    \/ Call_physical_to_logical
    \/ Call_logical_to_physical
    \/ Call_physical_to_ranged_logical
    \/ Call_logical_to_physical_ticks
    \/ Call_physical_to_un_ranged_logical
    \/ Call_logical_to_physical_with_offset
    \/ Call_physical_to_ranged_logical_numpy
    \/ Call_logical_to_physical_numpy
    \/ Call_physical_to_un_ranged_logical_numpy
    \/ Call_logical_to_physical_with_offset_numpy
    \/ Call_control_table_pwm_to_logical
    \/ Call_control_table_logical_to_pwm
    \/ Call_construct_logical_to_pwm_conversion_table_numpy
    \/ Call_construct_logical_to_pwm_conversion_table_arrow
    \/ Return

Spec == Init /\ [][Next]_vars

----------------------------------------------------------------------------
(* Helpers of the properties *)

RAbs(a) == <<Abs(a[1]), a[2]>>

Min(a, b) == IF a < b THEN a ELSE b

\* one tick's angular resolution, 360/4096 degrees
OneTick == RDivInt(RInt(DegPerRev), TicksPerRev)

PhysicalKeySeq == <<"0", "90", "180", "270", "360">>
LogicalKeySeq == <<"-180", "-90", "0", "90", "180">>

\* the degrees a converter was called on
CalledDegrees == args[1]

\* the ticks a conversion of transform.py was called on
CalledTicks == args[1][1]

\* the single value a call returned
Value == result[1]

----------------------------------------------------------------------------
\* C1: select_limits returns the result of the first matching rule, in the
\* order (1) a = 180 and b not in {90, 270} gives (-180, b); (2) b = 180 and
\* a not in {90, 270} gives (a, -180); (3) a = -180 and b not in {-90, -270}
\* gives (180, b); (4) b = -180 and a not in {-90, -270} gives (a, 180);
\* otherwise (a, b).  Both copies of the function return it.
C1_SelectLimitsFirstMatch ==
    call \in {"select_limits_physical_to_logical", "select_limits_pwm_to_logical"} =>
        LET a == args[1][1]
            b == args[2][1]
            r1 == a = 180 /\ b \notin {90, 270}
            r2 == b = 180 /\ a \notin {90, 270}
            r3 == a = -180 /\ b \notin {-90, -270}
            r4 == b = -180 /\ a \notin {-90, -270}
        IN  /\ r1 => result = Pair(<<-180, b>>)
            /\ (~r1 /\ r2) => result = Pair(<<a, -180>>)
            /\ (~r1 /\ ~r2 /\ r3) => result = Pair(<<180, b>>)
            /\ (~r1 /\ ~r2 /\ ~r3 /\ r4) => result = Pair(<<a, 180>>)
            /\ ~(r1 \/ r2 \/ r3 \/ r4) => result = Pair(<<a, b>>)

\* rules (1) and (2) both match (180, 180); rules (2) and (3) both match (-180, 180)
C1_Witness ==
    \/ /\ call = "select_limits_pwm_to_logical"
       /\ args = Pair(<<180, 180>>)
       /\ result = Pair(<<-180, 180>>)
    \/ /\ call = "select_limits_physical_to_logical"
       /\ args = Pair(<<-180, 180>>)
       /\ result = Pair(<<-180, -180>>)

----------------------------------------------------------------------------
\* C2: for x in [0, 360] the physical-to-logical converter returns
\* low + ((x - segmentStart) / 90) * (high - low), where the segment is
\* floor(x / 90) clamped to {0, 1, 2, 3} and (low, high) are the quadrant's
\* anchors after select_limits; for x outside [0, 360] it returns 0.  Checked
\* on the converter called on whole degrees and on ticks * 360 / 4096.
C2_PhysicalToLogicalFormula ==
    call \in {"physical_to_logical", "physical_to_ranged_logical"} =>
        LET x == IF call = "physical_to_logical"
                 THEN CalledDegrees
                 ELSE TicksToDegrees(CalledTicks)
            segment == Min(3, Floor(x) \div 90)
            limits == select_limits_physical_to_logical(
                          pwm_to_logical_table[PhysicalKeySeq[segment + 1]],
                          pwm_to_logical_table[PhysicalKeySeq[segment + 2]])
            t == RDivInt(RSub(x, RInt(90 * segment)), 90)
        IN  IF RLe(RInt(0), x) /\ RLe(x, RInt(360))
            THEN /\ Value = RAdd(RInt(limits[1]), RMul(t, RInt(limits[2] - limits[1])))
                 /\ x = RInt(360) => Value = RInt(limits[2])
            ELSE Value = RInt(0)

\* x = 360 on the irregular joint: the fourth quadrant (0, -180) is resolved to (0, 180)
C2_Witness ==
    /\ call = "physical_to_logical"
    /\ joint = "irregular"
    /\ args = <<RInt(360)>>
    /\ result = <<RInt(180)>>

----------------------------------------------------------------------------
\* C3: for x in [-180, 180] the logical-to-physical converter interpolates
\* over the segment bounded by {-180, -90, 0, 90, 180} that contains x, using
\* the raw anchor pairs; for x outside [-180, 180] it returns 0.
C3_LogicalToPhysicalFormula ==
    call = "logical_to_physical" =>
        LET x == CalledDegrees
            segment == Min(3, Floor(RAdd(x, RInt(180))) \div 90)
            low == logical_to_pwm_table[LogicalKeySeq[segment + 1]]
            high == logical_to_pwm_table[LogicalKeySeq[segment + 2]]
            t == RDivInt(RSub(x, RInt(90 * segment - 180)), 90)
        IN  IF RLe(RInt(-180), x) /\ RLe(x, RInt(180))
            THEN Value = RAdd(RInt(low), RMul(t, RInt(high - low)))
            ELSE Value = RInt(0)

----------------------------------------------------------------------------
\* the value the converter is built to return at physical anchor number i
\* (1..5): the low endpoint of the quadrant that starts there, after
\* select_limits; for the last anchor the high endpoint of the fourth quadrant
ResolvedAnchor(i) ==
    IF i <= 4
    THEN select_limits_physical_to_logical(
             pwm_to_logical_table[PhysicalKeySeq[i]],
             pwm_to_logical_table[PhysicalKeySeq[i + 1]])[1]
    ELSE select_limits_physical_to_logical(
             pwm_to_logical_table[PhysicalKeySeq[4]],
             pwm_to_logical_table[PhysicalKeySeq[5]])[2]

\* C4 as stated: at every physical anchor physical_to_logical returns the
\* anchor's logical value, and at every logical anchor logical_to_physical
\* returns the anchor's physical value.
C4_AnchorExactness ==
    /\ call = "physical_to_logical" =>
          \A i \in 1..5 :
              CalledDegrees = RInt(90 * (i - 1)) =>
                  Value = RInt(pwm_to_logical_table[PhysicalKeySeq[i]])
    /\ call = "logical_to_physical" =>
          \A i \in 1..5 :
              CalledDegrees = RInt(90 * (i - 1) - 180) =>
                  Value = RInt(logical_to_pwm_table[LogicalKeySeq[i]])

\* C4 amended: at every logical anchor logical_to_physical returns the
\* anchor's physical value; at every physical anchor physical_to_logical
\* returns the anchor's logical value, except that an anchor value of 180 or
\* -180 that select_limits rewrites in the quadrant starting at the anchor
\* (for 360: ending at it) is returned with the opposite sign.
C4_AnchorExactnessResolved ==
    /\ call = "physical_to_logical" =>
          \A i \in 1..5 :
              CalledDegrees = RInt(90 * (i - 1)) =>
                  LET raw == pwm_to_logical_table[PhysicalKeySeq[i]]
                  IN  /\ Value = RInt(ResolvedAnchor(i))
                      /\ \/ ResolvedAnchor(i) = raw
                         \/ raw \in {180, -180} /\ ResolvedAnchor(i) = -raw
    /\ call = "logical_to_physical" =>
          \A i \in 1..5 :
              CalledDegrees = RInt(90 * (i - 1) - 180) =>
                  Value = RInt(logical_to_pwm_table[LogicalKeySeq[i]])

\* the irregular joint's anchor 90 -> 180 is returned as -180; the logical
\* anchor 180 of the package converter is returned exactly
C4_Witness ==
    \/ /\ call = "physical_to_logical"
       /\ joint = "irregular"
       /\ args = <<RInt(90)>>
       /\ pwm_to_logical_table["90"] = 180
       /\ result = <<RInt(-180)>>
    \/ /\ call = "logical_to_physical"
       /\ variant = "package"
       /\ joint = "irregular"
       /\ args = <<RInt(180)>>
       /\ result = <<RInt(360)>>

----------------------------------------------------------------------------
\* C5: with the physical anchors {0:0, 90:90, 180:180, 270:-90, 360:0} the
\* 180-degree anchor is resolved to -180 as the low endpoint of the quadrant
\* [180, 270), and physical_to_logical(180) returns -180, not the raw 180.
C5_WrapTieBreak ==
    pwm_to_logical_table = PhysicalAnchors(0, 90, 180, -90, 0) =>
        /\ (call \in {"select_limits_physical_to_logical", "select_limits_pwm_to_logical"}
               /\ args = Pair(<<pwm_to_logical_table["180"], pwm_to_logical_table["270"]>>))
           => result = Pair(<<-180, -90>>)
        /\ (call = "physical_to_logical" /\ args = <<RInt(180)>>) => result = <<RInt(-180)>>

C5_Witness ==
    /\ joint = "seam"
    /\ variant = "functions"
    /\ call = "physical_to_logical"
    /\ args = <<RInt(180)>>
    /\ result = <<RInt(-180)>>

----------------------------------------------------------------------------
\* C6: the offset-preserving move whose target is the joint's own un-ranged
\* logical position returns the current ticks unchanged.
C6_MoveToOwnPositionIsNoOp ==
    (call = "logical_to_physical_with_offset"
        /\ args[2] = physical_to_un_ranged_logical_numpy(CalledTicks))
    => Value = RInt(CalledTicks)

\* a position past one revolution whose base differs from the ticks
C6_Witness ==
    /\ call = "logical_to_physical_with_offset"
    /\ CalledTicks = TicksPerRev + 4
    /\ args[2] = physical_to_un_ranged_logical_numpy(CalledTicks)
    /\ logical_to_physical_numpy(args[2]) # CalledTicks
    /\ Value = RInt(CalledTicks)

----------------------------------------------------------------------------
\* C7: for a well-formed table (the identity joint) and any ticks,
\* physical_to_un_ranged_logical(ticks) - physical_to_un_ranged_logical(ticks - 4096)
\* equals 360 up to one tick's angular resolution.
C7_OneRevolutionContinuity ==
    (call = "physical_to_un_ranged_logical" /\ joint = "identity") =>
        RLe(RAbs(RSub(RSub(Value,
                           physical_to_un_ranged_logical_numpy(CalledTicks - TicksPerRev)),
                      RInt(DegPerRev))),
            OneTick)

----------------------------------------------------------------------------
\* the round-trip error |logical_to_physical(physical_to_logical(x)) - x| of
\* the ranged conversion just called, x = ticks * 360 / 4096
RoundTripError ==
    RAbs(RSub(logical_to_physical(Value), TicksToDegrees(CalledTicks)))

\* C8 as stated: for every ticks in [0, 4095] and a well-formed table (the
\* identity joint), logical_to_physical(physical_to_logical(ticks*360/4096))
\* differs from ticks*360/4096 by at most 360/4096 degrees.
C8_RoundTrip ==
    (call = "physical_to_ranged_logical"
        /\ joint = "identity"
        /\ CalledTicks \in 0 .. (TicksPerRev - 1))
    => RLe(RoundTripError, OneTick)

\* C8 amended: for the identity joint and the offset joint and every ticks in
\* [0, 4095] whose logical angle physical_to_logical(ticks*360/4096) lies in
\* [-180, 180] (identity joint: ticks <= 2048; offset joint: every ticks), the
\* round trip differs from ticks*360/4096 by at most 360/4096 degrees.
C8_RoundTripInsideLogicalDomain ==
    (call = "physical_to_ranged_logical"
        /\ joint \in {"identity", "offset"}
        /\ CalledTicks \in 0 .. (TicksPerRev - 1)
        /\ RLe(RInt(-180), Value) /\ RLe(Value, RInt(180)))
    => RLe(RoundTripError, OneTick)

\* the last tick of the identity joint inside the logical domain, and a tick
\* of the offset joint in its fourth quadrant
C8_Witness ==
    /\ call = "physical_to_ranged_logical"
    /\ \/ joint = "identity" /\ CalledTicks = 2048 /\ Value = RInt(180)
       \/ joint = "offset" /\ CalledTicks = 4095
    /\ RLe(RoundTripError, OneTick)

----------------------------------------------------------------------------
\* C9 as stated: on the identity joint physical_to_logical(45) = 45,
\* physical_to_logical(200) = -160 and logical_to_physical(-170) = 190.
C9_IdentityScenario ==
    joint = "identity" =>
        /\ (call = "physical_to_logical" /\ args = <<RInt(45)>>) => Value = RInt(45)
        /\ (call = "physical_to_logical" /\ args = <<RInt(200)>>) => Value = RInt(-160)
        /\ (call = "logical_to_physical" /\ args = <<RInt(-170)>>) => Value = RInt(190)

\* C9 amended: on the identity joint physical_to_logical(45) = 45,
\* physical_to_logical(200) = 200 and logical_to_physical(-170) = -170.
C9_IdentityScenarioAsComputed ==
    joint = "identity" =>
        /\ (call = "physical_to_logical" /\ args = <<RInt(45)>>) => Value = RInt(45)
        /\ (call = "physical_to_logical" /\ args = <<RInt(200)>>) => Value = RInt(200)
        /\ (call = "logical_to_physical" /\ args = <<RInt(-170)>>) => Value = RInt(-170)

C9_Witness ==
    /\ joint = "identity"
    /\ \/ call = "physical_to_logical" /\ args = <<RInt(200)>> /\ Value = RInt(200)
       \/ call = "logical_to_physical" /\ args = <<RInt(-170)>> /\ Value = RInt(-170)

----------------------------------------------------------------------------
\* C10: the ranged conversion wraps the degrees into [0, 360) before the
\* converter is applied: the ranged logical angle of ticks t equals the
\* ranged logical angle of t mod 4096.
C10_RangedWrapsTicks ==
    call = "physical_to_ranged_logical" =>
        Value = physical_to_ranged_logical_numpy(CalledTicks % TicksPerRev)

----------------------------------------------------------------------------
\* wrap(L) = ((L + 180) mod 360) - 180 of whole degrees
WrapLogical(l) == ((l + 180) % DegPerRev) - 180

\* C11: for every logical degree value L the logical-to-physical tick
\* conversion returns round(converter(wrap(L)) * 4096/360): L is wrapped into
\* [-180, 180) before the converter is applied and the result is rounded to
\* the nearest integer.
C11_TicksWrappedAndRounded ==
    call = "logical_to_physical_ticks" =>
        Value = RInt(Round(RDivInt(RMul(logical_to_physical(RInt(WrapLogical(CalledDegrees[1]))),
                                        RInt(TicksPerRev)),
                                   DegPerRev)))

----------------------------------------------------------------------------
\* the residual ticks - base of the un-ranged conversion just called
Residual ==
    CalledTicks
        - logical_to_physical_numpy(physical_to_ranged_logical_numpy(CalledTicks))

\* C12 as stated: for every ticks in [0, 4095] and a well-formed table (the
\* identity joint), physical_to_un_ranged_logical(ticks) equals
\* physical_to_ranged_logical(ticks) and the residual ticks - base is 0.
C12_UnRangedEqualsRanged ==
    (call = "physical_to_un_ranged_logical"
        /\ joint = "identity"
        /\ CalledTicks \in 0 .. (TicksPerRev - 1))
    => /\ Value = physical_to_ranged_logical_numpy(CalledTicks)
       /\ Residual = 0

\* C12 amended: for the identity joint and the offset joint and every ticks
\* in [0, 4095] whose ranged logical angle lies in [-180, 180] (identity
\* joint: ticks <= 2048; offset joint: every ticks), the un-ranged logical
\* angle equals the ranged one and the residual ticks - base is 0.
C12_UnRangedEqualsRangedInsideLogicalDomain ==
    (call = "physical_to_un_ranged_logical"
        /\ joint \in {"identity", "offset"}
        /\ CalledTicks \in 0 .. (TicksPerRev - 1)
        /\ RLe(RInt(-180), physical_to_ranged_logical_numpy(CalledTicks))
        /\ RLe(physical_to_ranged_logical_numpy(CalledTicks), RInt(180)))
    => /\ Value = physical_to_ranged_logical_numpy(CalledTicks)
       /\ Residual = 0

\* a tick whose degrees are not whole, in the last quadrant of the offset
\* joint and in the second quadrant of the identity joint
C12_Witness ==
    /\ call = "physical_to_un_ranged_logical"
    /\ \/ joint = "offset" /\ CalledTicks = 4095
       \/ joint = "identity" /\ CalledTicks = 2047
    /\ Value = physical_to_ranged_logical_numpy(CalledTicks)
    /\ Value[2] # 1
    /\ Residual = 0

----------------------------------------------------------------------------
\* the batch entry points of transform.py
BatchCalls ==
    {"physical_to_ranged_logical_numpy", "logical_to_physical_numpy",
     "physical_to_un_ranged_logical_numpy", "logical_to_physical_with_offset_numpy"}

\* an array with a missing sample, or of another length than the joint list
InvalidArray(values) == contains_None(values) \/ Len(batch_joints) # Len(values)

\* C13: every batch entry point rejects invalid input: when a sample value
\* is None, or the number of joint names differs from the number of values,
\* the call raises an error and returns no converted result; the
\* offset-preserving move does so for its physical and its logical array.
C13_InvalidInputRejected ==
    (call \in BatchCalls
        /\ \/ InvalidArray(args)
           \/ call = "logical_to_physical_with_offset_numpy" /\ InvalidArray(more_args))
    => (raised = "ValueError" /\ result = <<>>)

\* two values for three joints, and a move whose target array alone is short
C13_Witness ==
    /\ raised = "ValueError"
    /\ result = <<>>
    /\ Len(batch_joints) = 3
    /\ ~contains_None(args)
    /\ \/ call = "physical_to_ranged_logical_numpy" /\ Len(args) = 2
       \/ /\ call = "logical_to_physical_with_offset_numpy"
          /\ Len(args) = 3
          /\ Len(more_args) = 2
          /\ ~contains_None(more_args)

----------------------------------------------------------------------------
\* C14: in a control table built for several joints the joint's two
\* converters are determined by the joint's own anchors only: whichever
\* other joint is in the table, and in whichever order the joints are listed,
\* the converter returns the same value for the same input.
C14_PerJointIndependence ==
    /\ call = "control_table.pwm_to_logical" =>
        \A tables \in JointTables :
            pwm_to_logical_f(
                load_control_table_from_json_conversion_tables(tables)[joint]["pwm_to_logical"],
                CalledDegrees) = Value
    /\ call = "control_table.logical_to_pwm" =>
        \A tables \in JointTables :
            logical_to_physical_converter(
                load_control_table_from_json_conversion_tables(tables)[joint]["logical_to_pwm"],
                CalledDegrees) = Value

\* the identity joint listed before the offset joint, whose anchors map 90
\* to -90 (physical) and to 270 (logical)
C14_Witness ==
    /\ joint = "identity"
    /\ batch_joints = <<"identity", "offset">>
    /\ call \in {"control_table.pwm_to_logical", "control_table.logical_to_pwm"}
    /\ args = <<RInt(90)>>
    /\ Value = RInt(90)

----------------------------------------------------------------------------
\* baseTicks and targetTicksRanged of the offset-preserving move just called
BaseTicks == logical_to_physical_numpy(physical_to_un_ranged_logical_numpy(CalledTicks))
TargetTicksRanged == logical_to_physical_numpy(args[2])

\* C15: the offset-preserving move returns currentTicks - baseTicks +
\* targetTicksRanged, so result - targetTicksRanged = currentTicks - baseTicks
\* for every target: the residual of the current position is carried over to
\* the commanded target.
C15_ResidualCarriedOver ==
    call = "logical_to_physical_with_offset" =>
        /\ Value = RInt(CalledTicks - BaseTicks + TargetTicksRanged)
        /\ Value[1] - TargetTicksRanged = CalledTicks - BaseTicks

\* a move to 90 degrees from a position whose residual is not 0
C15_Witness ==
    /\ call = "logical_to_physical_with_offset"
    /\ args[2] = RInt(90)
    /\ CalledTicks - BaseTicks # 0
    /\ Value[1] - TargetTicksRanged = CalledTicks - BaseTicks

----------------------------------------------------------------------------
\* C16: the entry of a control table built by construct_control_table or by
\* load_control_table_from_json_conversion_tables has the keys transform.py
\* looks up ("physical_to_logical", "logical_to_physical"), so a batch call
\* on it for a known joint with valid input raises no KeyError.
C16_ConstructedTableUsable ==
    (call \in BatchCalls
        /\ entry_keys
            = DOMAIN load_control_table_from_json_conversion_tables(<<OwnCalibration>>)[joint]
        /\ Len(batch_joints) >= 1
        /\ ~InvalidArray(args)
        /\ (call = "logical_to_physical_with_offset_numpy" => ~InvalidArray(more_args)))
    => ({"physical_to_logical", "logical_to_physical"} \subseteq entry_keys
            /\ raised # "KeyError")

----------------------------------------------------------------------------
\* the keys of the anchor table just constructed
ConstructedKeys == {result[i][1] : i \in DOMAIN result}

\* C17: for measured positions and target logical angles that are multiples
\* of 90 in [-180, 180] the anchor table has all five keys -180, -90, 0, 90,
\* 180, and the numpy and the arrow variant of
\* construct_logical_to_pwm_conversion_table return the same table.
C17_LogicalAnchorTableComplete ==
    call \in {"construct_logical_to_pwm_conversion_table_numpy",
              "construct_logical_to_pwm_conversion_table_arrow"}
    => /\ {-180, -90, 0, 90, 180} \subseteq ConstructedKeys
       /\ Items(construct_logical_to_pwm_conversion_table_numpy(
                    <<args[1][1], args[2][1]>>, <<more_args[1][1], more_args[2][1]>>))
            = Items(construct_logical_to_pwm_conversion_table_arrow(
                        <<args[1][1], args[2][1]>>, <<more_args[1][1], more_args[2][1]>>))

=============================================================================
